---- MODULE Spec2Model ----
(***************************************************************************)
(* Model of the SD Tax Engine (src/main.py): the slab tax calculator, the  *)
(* T-format statement composers and the /excel report handler.             *)
(*                                                                         *)
(* Money.  The source computes in binary64.  The model computes in exact   *)
(* integer arithmetic on fractions with a fixed denominator:               *)
(*   - simple_tax receives whole amounts; rates are kept in percent, so    *)
(*     the running tax t is carried in 1/100 and the cess in 1/10000;      *)
(*   - YearIn heads are carried in 1/Den (Den = 100), the denominator of   *)
(*     the growth factor 1 + g/100.0, so that apply_growth is exact.       *)
(* On the whole amounts of the model binary64 gives the same results.      *)
(* The service keeps no state between calls: the state of the model is    *)
(* one call, the function (fn) and its arguments (args), whether it has    *)
(* returned (pc) and what (ret), and for simple_tax the call served before *)
(* it (last = <<args, ret>>, or <<>>).                                     *)
(***************************************************************************)
EXTENDS Integers, Sequences, FiniteSets

VARIABLES pc, fn, args, ret, last

vars == <<pc, fn, args, ret, last>>

None == "None"

\* ------------------------------------------------------------------
\* Bounds of the model
\* ------------------------------------------------------------------
\* incomes lie within MaxOff of a slab boundary (or of -50,000)
MaxOff == 10
\* a head of a statement is a whole amount in -MaxAmt..MaxAmt
MaxAmt == 2
\* when a statement composer is called directly, at most MaxHeads of the
\* heads it reads are populated
MaxHeads == 2

\* ------------------------------------------------------------------
\* Core helpers
\* ------------------------------------------------------------------
Abs(x) == IF x < 0 THEN -x ELSE x

Min(a, b) == IF a <= b THEN a ELSE b

Max(a, b) == IF a >= b THEN a ELSE b

RECURSIVE SumAmt(_)
\* sum(x[1] for x in rows): rows is a sequence of <<label, amount>>
SumAmt(rows) == IF rows = <<>> THEN 0 ELSE rows[1][2] + SumAmt(Tail(rows))

\* rounding with halves rounded up
round_inr_half_up(n, d) == (2 * n + d) \div (2 * d)

\* round_inr(x) for x = n/d, d > 0: Python round(), i.e. round half to even
round_inr(n, d) ==
  LET q == n \div d
      r == n % d
  IN  IF 2 * r < d THEN q
      ELSE IF 2 * r > d THEN q + 1
      ELSE IF q % 2 = 0 THEN q ELSE q + 1

\* ------------------------------------------------------------------
\* simple_tax
\* ------------------------------------------------------------------
\* the table with the rate of the fourth slab below that of the third
slabs_dip == << <<300000, 0>>, <<400000, 5>>, <<300000, 10>>,
                <<200000, 5>>, <<300000, 20>>, <<10^9, 30>> >>

\* (width, rate in percent).  The last width is 10**18 in the source; it
\* only has to exceed every income, and 10^9 does so within TLC's 32-bit
\* integers.
slabs == << <<300000, 0>>, <<400000, 5>>, <<300000, 10>>,
            <<200000, 15>>, <<300000, 20>>, <<10^9, 30>> >>

RECURSIVE SlabLoop(_, _, _)
\* the for loop of simple_tax from slab i on; t is in 1/100
SlabLoop(i, t, rem) ==
  LET width == slabs[i][1]
      rate  == slabs[i][2]
      amt   == Min(rem, width)
      t2    == t + amt * rate
      rem2  == rem - amt
  IN  IF rem2 <= 0 \/ i = Len(slabs) THEN t2 ELSE SlabLoop(i + 1, t2, rem2)

simple_tax(total_income) ==
  LET TI   == Max(0, total_income)
      t    == SlabLoop(1, 0, TI)
      cess == 4 * t
  IN  [tax   |-> round_inr(t, 100),
       cess  |-> round_inr(cess, 10000),
       total |-> round_inr(100 * t + cess, 10000)]

\* incomes of the model: around every slab boundary, and around -50,000
RECURSIVE Boundary(_)
Boundary(i) == IF i = 0 THEN 0 ELSE Boundary(i - 1) + slabs[i][1]

Bases == {-50000} \cup {Boundary(i) : i \in 0..(Len(slabs) - 1)}

Incomes == {b + d : b \in Bases, d \in (-MaxOff)..MaxOff}

\* simple_tax is called with an income
InitTax ==
  /\ pc = "call"
  /\ fn = "simple_tax"
  /\ args \in Incomes
  /\ ret = None
  /\ last = <<>>

\* the call of simple_tax returns
SimpleTax ==
  /\ pc = "call" /\ fn = "simple_tax"
  /\ ret' = simple_tax(args)
  /\ pc' = "return"
  /\ UNCHANGED <<fn, args, last>>

\* simple_tax is called a second time; the first call is remembered in last
CallAgain(total_income) ==
  /\ pc = "return" /\ fn = "simple_tax" /\ last = <<>>
  /\ last' = <<args, ret>>
  /\ args' = total_income
  /\ ret' = None
  /\ pc' = "call"
  /\ UNCHANGED fn

NextTax ==
  \/ SimpleTax
  \/ \E total_income \in Incomes : CallAgain(total_income)

SpecTax == InitTax /\ [][NextTax]_vars

\* ------------------------------------------------------------------
\* Claims about simple_tax (checked under SpecTax)
\* ------------------------------------------------------------------
\* the slab table as the specification states it
RefSlabs == << <<300000, 0>>, <<400000, 5>>, <<300000, 10>>,
               <<200000, 15>>, <<300000, 20>>, <<10^9, 30>> >>

RECURSIVE RefWalk(_, _)
\* tax in 1/100 of walking every slab from i on over the remaining income
RefWalk(i, remaining) ==
  IF i > Len(RefSlabs) THEN 0
  ELSE Min(remaining, RefSlabs[i][1]) * RefSlabs[i][2]
         + RefWalk(i + 1, remaining - Min(remaining, RefSlabs[i][1]))

\* the whole number nearest to n/d, the even one of two equally near
Nearest(n, d) ==
  CHOOSE k \in ((n \div d) - 1)..((n \div d) + 1) :
    /\ 2 * Abs(n - k * d) <= d
    /\ (2 * Abs(n - k * d) = d => k % 2 = 0)

RefTax(I) ==
  LET t == RefWalk(1, Max(0, I))
  IN  [tax |-> Nearest(t, 100), cess |-> Nearest(4 * t, 10000),
       total |-> Nearest(104 * t, 10000)]

\* C1: for every income I, simple_tax(I) is the result of the reference
\* slab walk over max(0, I) with cess 4% and tax, cess and total each rounded
\* to a whole unit; I = 1,000,000 gives 50,000 / 2,000 / 52,000 and every
\* I <= 0 gives 0 / 0 / 0.
C1_SlabWalk ==
  (pc = "return" /\ fn = "simple_tax") =>
    /\ ret = RefTax(args)
    /\ (args = 1000000 => ret = [tax |-> 50000, cess |-> 2000, total |-> 52000])
    /\ (args <= 0 => ret = [tax |-> 0, cess |-> 0, total |-> 0])

\* an income of 1,000,000 has been taxed, and so has a negative income
C1_Witness ==
  /\ pc = "return" /\ fn = "simple_tax" /\ args = 1000000 /\ ret.total = 52000
  /\ last # <<>> /\ last[1] < 0 /\ last[2].total = 0

\* C2: for every income, the total liability simple_tax returns is the tax
\* it returns plus the cess it returns.
C2_TotalIsTaxPlusCess ==
  (pc = "return" /\ fn = "simple_tax") => ret.total = ret.tax + ret.cess

\* C3: for incomes I1 < I2 the tax returned for I1 is at most the tax
\* returned for I2, and the rate of each slab of the table is never lower
\* than the rate of the slab before it.
C3_MonotoneConvex ==
  /\ (pc = "return" /\ fn = "simple_tax" /\ last # <<>>) =>
        /\ (last[1] < args => last[2].tax <= ret.tax)
        /\ (args < last[1] => ret.tax <= last[2].tax)
  /\ \A i \in 1..(Len(slabs) - 1) : slabs[i][2] <= slabs[i + 1][2]

\* two consecutive calls with I1 < I2 in different slabs and a higher tax
C3_Witness ==
  /\ pc = "return" /\ fn = "simple_tax" /\ last # <<>>
  /\ last[1] < args /\ 0 < last[2].tax /\ last[2].tax < ret.tax

\* ------------------------------------------------------------------
\* YearIn and the statement composers
\* ------------------------------------------------------------------
\* denominator of the heads of a YearIn: 1 + g/100.0 has denominator 100
Den == 100

Fields == {"turnover", "other_income", "opening_stock", "purchases",
           "return_inwards", "return_outwards", "carriage_inward",
           "closing_stock", "salaries", "rent_utilities", "admin_misc",
           "depreciation_it", "finance_costs", "other_expenses",
           "capital_open", "additional_investment", "drawings", "loans",
           "payables", "receivables", "fixed_assets", "cash_bank",
           "other_assets", "other_liab"}

\* a YearIn with every head omitted: each defaults to 0
YearIn == [f \in Fields |-> 0]

compute_profit(y) ==
  LET net_purchases == y.purchases - y.return_outwards
      net_sales     == y.turnover - y.return_inwards
      cogs          == y.opening_stock + net_purchases + y.carriage_inward
                         - y.closing_stock
      gross_profit  == net_sales - cogs
      indirect_exp  == y.salaries + y.rent_utilities + y.admin_misc
                         + y.depreciation_it + y.finance_costs
                         + y.other_expenses
      net_profit    == gross_profit + y.other_income - indirect_exp
  IN  [net_sales |-> net_sales, cogs |-> cogs, gross_profit |-> gross_profit,
       indirect_exp |-> indirect_exp, net_profit |-> net_profit]

\* the debit side with the return outwards added instead of deducted
pl_dr_returns_added(y) ==
  << <<"To Opening Stock", y.opening_stock>>,
     <<"To Purchases", y.purchases>>,
     <<"(-) Return Outwards", y.return_outwards>>,
     <<"To Carriage Inward", y.carriage_inward>>,
     <<"To Salaries", y.salaries>>,
     <<"To Rent & Utilities", y.rent_utilities>>,
     <<"To Admin & Misc", y.admin_misc>>,
     <<"To Finance Costs", y.finance_costs>>,
     <<"To Depreciation (IT)", y.depreciation_it>>,
     <<"To Other Expenses", y.other_expenses>> >>

pl_dr(y) ==
  << <<"To Opening Stock", y.opening_stock>>,
     <<"To Purchases", y.purchases>>,
     <<"(-) Return Outwards", -y.return_outwards>>,
     <<"To Carriage Inward", y.carriage_inward>>,
     <<"To Salaries", y.salaries>>,
     <<"To Rent & Utilities", y.rent_utilities>>,
     <<"To Admin & Misc", y.admin_misc>>,
     <<"To Finance Costs", y.finance_costs>>,
     <<"To Depreciation (IT)", y.depreciation_it>>,
     <<"To Other Expenses", y.other_expenses>> >>

pl_cr(y) ==
  << <<"By Sales", y.turnover>>,
     <<"(-) Return Inwards", -y.return_inwards>>,
     <<"By Closing Stock", y.closing_stock>>,
     <<"By Other Income", y.other_income>> >>

\* pl_t_format with the comparison of the two totals turned round
pl_t_format_larger_side(y) ==
  LET numbers  == compute_profit(y)
      dr       == pl_dr(y)
      cr       == pl_cr(y)
      total_dr == SumAmt(dr)
      total_cr == SumAmt(cr)
  IN  IF total_cr <= total_dr
      THEN [dr |-> Append(dr, <<"To Net Profit", total_cr - total_dr>>),
            cr |-> cr, net_profit |-> numbers.net_profit]
      ELSE [dr |-> dr,
            cr |-> Append(cr, <<"By Gross Profit", total_dr - total_cr>>),
            net_profit |-> numbers.net_profit]

pl_t_format(y) ==
  LET numbers  == compute_profit(y)
      dr       == pl_dr(y)
      cr       == pl_cr(y)
      total_dr == SumAmt(dr)
      total_cr == SumAmt(cr)
  IN  IF total_cr >= total_dr
      THEN [dr |-> Append(dr, <<"To Net Profit", total_cr - total_dr>>),
            cr |-> cr, net_profit |-> numbers.net_profit]
      ELSE [dr |-> dr,
            cr |-> Append(cr, <<"By Gross Profit", total_dr - total_cr>>),
            net_profit |-> numbers.net_profit]

\* capital_t_format without the floor at zero
capital_t_format_no_floor(opening, profit, addl_invest, drawings) ==
  LET cr      == << <<"By Opening Balance", opening>>,
                    <<"By Profit", profit>>,
                    <<"By Additional Investment", addl_invest>> >>
      dr      == << <<"To Drawings", drawings>> >>
      closing == SumAmt(cr) - SumAmt(dr)
  IN  [dr |-> Append(dr, <<"To Closing Balance", closing>>), cr |-> cr,
       closing |-> closing]

capital_t_format(opening, profit, addl_invest, drawings) ==
  LET cr      == << <<"By Opening Balance", opening>>,
                    <<"By Profit", profit>>,
                    <<"By Additional Investment", addl_invest>> >>
      dr      == << <<"To Drawings", drawings>> >>
      tot_cr  == SumAmt(cr)
      tot_dr  == SumAmt(dr)
      closing == Max(0, tot_cr - tot_dr)
  IN  [dr |-> Append(dr, <<"To Closing Balance", closing>>), cr |-> cr,
       closing |-> closing]

\* balance_sheet_t_format with the second test dropped (elif -> else)
balance_sheet_t_format_else(capital, y) ==
  LET liabilities == << <<"Capital", capital>>,
                        <<"Loans", y.loans>>,
                        <<"Payables", y.payables>>,
                        <<"Other Liabilities", y.other_liab>> >>
      assets      == << <<"Fixed Assets", y.fixed_assets>>,
                        <<"Inventory", y.closing_stock>>,
                        <<"Receivables", y.receivables>>,
                        <<"Cash/Bank", y.cash_bank>>,
                        <<"Other Assets", y.other_assets>> >>
      tot_l       == SumAmt(liabilities)
      tot_a       == SumAmt(assets)
  IN  IF tot_l > tot_a
      THEN [liabilities |-> liabilities,
            assets |-> Append(assets,
                         <<"Balancing Figure (Assets)", tot_l - tot_a>>)]
      ELSE [liabilities |-> Append(liabilities,
                              <<"Balancing Figure (Liabilities)", tot_a - tot_l>>),
            assets |-> assets]

balance_sheet_t_format(capital, y) ==
  LET liabilities == << <<"Capital", capital>>,
                        <<"Loans", y.loans>>,
                        <<"Payables", y.payables>>,
                        <<"Other Liabilities", y.other_liab>> >>
      assets      == << <<"Fixed Assets", y.fixed_assets>>,
                        <<"Inventory", y.closing_stock>>,
                        <<"Receivables", y.receivables>>,
                        <<"Cash/Bank", y.cash_bank>>,
                        <<"Other Assets", y.other_assets>> >>
      tot_l       == SumAmt(liabilities)
      tot_a       == SumAmt(assets)
  IN  IF tot_l > tot_a
      THEN [liabilities |-> liabilities,
            assets |-> Append(assets,
                         <<"Balancing Figure (Assets)", tot_l - tot_a>>)]
      ELSE IF tot_a > tot_l
      THEN [liabilities |-> Append(liabilities,
                              <<"Balancing Figure (Liabilities)", tot_a - tot_l>>),
            assets |-> assets]
      ELSE [liabilities |-> liabilities, assets |-> assets]

\* amounts supplied to the composers: whole amounts, in 1/Den
Amounts == {v * Den : v \in (-MaxAmt)..MaxAmt}

RECURSIVE Populated(_, _)
\* the YearIn's with at most k heads supplied, all of them among heads
Populated(heads, k) ==
  IF k = 0 THEN {YearIn}
  ELSE {[y EXCEPT ![h] = v] : y \in Populated(heads, k - 1), h \in heads,
                               v \in Amounts}

\* the heads pl_t_format reads
PlHeads == {"turnover", "other_income", "opening_stock", "purchases",
            "return_inwards", "return_outwards", "carriage_inward",
            "closing_stock", "salaries", "rent_utilities", "admin_misc",
            "depreciation_it", "finance_costs", "other_expenses"}

\* the heads balance_sheet_t_format reads
BsHeads == {"loans", "payables", "other_liab", "fixed_assets", "closing_stock",
            "receivables", "cash_bank", "other_assets"}

\* years passed to a composer: up to MaxHeads of the heads it reads, or any
\* one head
PlYears == Populated(PlHeads, MaxHeads) \cup Populated(Fields, 1)

BsYears == Populated(BsHeads, MaxHeads) \cup Populated(Fields, 1)

\* one of the composers is called
InitStatements ==
  /\ pc = "call"
  /\ \/ fn = "pl_t_format" /\ args \in PlYears
     \/ /\ fn = "capital_t_format"
        /\ args \in [opening : Amounts, profit : Amounts,
                      addl_invest : Amounts, drawings : Amounts]
     \/ /\ fn = "balance_sheet_t_format"
        /\ args \in [capital : Amounts, y : BsYears]
  /\ ret = None
  /\ last = <<>>

PlTFormat ==
  /\ pc = "call" /\ fn = "pl_t_format"
  /\ ret' = pl_t_format(args)
  /\ pc' = "return"
  /\ UNCHANGED <<fn, args, last>>

CapitalTFormat ==
  /\ pc = "call" /\ fn = "capital_t_format"
  /\ ret' = capital_t_format(args.opening, args.profit, args.addl_invest,
                             args.drawings)
  /\ pc' = "return"
  /\ UNCHANGED <<fn, args, last>>

BalanceSheetTFormat ==
  /\ pc = "call" /\ fn = "balance_sheet_t_format"
  /\ ret' = balance_sheet_t_format(args.capital, args.y)
  /\ pc' = "return"
  /\ UNCHANGED <<fn, args, last>>

NextStatements == PlTFormat \/ CapitalTFormat \/ BalanceSheetTFormat

SpecStatements == InitStatements /\ [][NextStatements]_vars

\* ------------------------------------------------------------------
\* Claims about the statement composers (checked under SpecStatements)
\* ------------------------------------------------------------------
\* the rows of a side whose label is in labels
RowsLabelled(rows, labels) == {i \in 1..Len(rows) : rows[i][1] \in labels}

\* C4 as stated: the capital statement is balanced for every combination of
\* opening balance, profit, additional investment and drawings, the closing
\* balance being max(0, credits - debits).
C4_AlwaysBalanced ==
  (pc = "return" /\ fn = "capital_t_format") =>
    LET credits == args.opening + args.profit + args.addl_invest
        debits  == args.drawings
    IN  /\ ret.closing = Max(0, credits - debits)
        /\ SumAmt(ret.dr) = SumAmt(ret.cr)

\* C4 amended: the closing balance is max(0, credits - debits) and is the
\* last debit entry; the statement is balanced whenever the credits cover
\* the drawings, and otherwise the closing balance is 0 and the debit side
\* exceeds the credit side by drawings - credits.
C4_BalancedUnlessOverdrawn ==
  (pc = "return" /\ fn = "capital_t_format") =>
    LET credits == args.opening + args.profit + args.addl_invest
        debits  == args.drawings
    IN  /\ ret.closing = Max(0, credits - debits)
        /\ ret.dr = << <<"To Drawings", args.drawings>>,
                       <<"To Closing Balance", ret.closing>> >>
        /\ SumAmt(ret.cr) = credits
        /\ (credits >= debits => SumAmt(ret.dr) = SumAmt(ret.cr))
        /\ (credits < debits =>
              /\ ret.closing = 0
              /\ SumAmt(ret.dr) - SumAmt(ret.cr) = debits - credits)

\* a statement whose drawings exceed its credits has been composed
C4_Witness ==
  /\ pc = "return" /\ fn = "capital_t_format"
  /\ args.opening + args.profit + args.addl_invest < args.drawings
  /\ args.profit < 0
  /\ SumAmt(ret.dr) > SumAmt(ret.cr)

BalancingLabels == {"Balancing Figure (Assets)", "Balancing Figure (Liabilities)"}

\* C5: the balance sheet has sum(liabilities) = sum(assets), at most one
\* Balancing Figure entry, on the side whose natural total was smaller, and
\* the entry is present if and only if the natural totals differ.
C5_BalanceSheetBalanced ==
  (pc = "return" /\ fn = "balance_sheet_t_format") =>
    LET y     == args.y
        nat_l == args.capital + y.loans + y.payables + y.other_liab
        nat_a == y.fixed_assets + y.closing_stock + y.receivables
                   + y.cash_bank + y.other_assets
        bal_l == RowsLabelled(ret.liabilities, BalancingLabels)
        bal_a == RowsLabelled(ret.assets, BalancingLabels)
    IN  /\ SumAmt(ret.liabilities) = SumAmt(ret.assets)
        /\ Cardinality(bal_l) + Cardinality(bal_a) <= 1
        /\ (bal_l # {} => nat_l < nat_a)
        /\ (bal_a # {} => nat_a < nat_l)
        /\ (bal_l \cup bal_a # {} <=> nat_l # nat_a)

\* a sheet with a balancing figure on the liabilities side has been composed
C5_Witness ==
  /\ pc = "return" /\ fn = "balance_sheet_t_format"
  /\ RowsLabelled(ret.liabilities, BalancingLabels) # {}
  /\ args.capital # 0

PlugLabels == {"To Net Profit", "By Gross Profit"}

\* natural totals of the two sides of the trading/profit statement
NaturalDr(y) ==
  y.opening_stock + (y.purchases - y.return_outwards) + y.carriage_inward
    + y.salaries + y.rent_utilities + y.admin_misc + y.finance_costs
    + y.depreciation_it + y.other_expenses

NaturalCr(y) ==
  (y.turnover - y.return_inwards) + y.closing_stock + y.other_income

\* C6: the trading/profit statement receives exactly one plug entry, on
\* whichever side has the smaller total, and the two sides then sum equal.
C6_OnePlugSmallerSide ==
  (pc = "return" /\ fn = "pl_t_format") =>
    LET plug_dr == RowsLabelled(ret.dr, PlugLabels)
        plug_cr == RowsLabelled(ret.cr, PlugLabels)
    IN  /\ Cardinality(plug_dr) + Cardinality(plug_cr) = 1
        /\ (plug_dr # {} => NaturalDr(args) <= NaturalCr(args))
        /\ (plug_cr # {} => NaturalCr(args) < NaturalDr(args))
        /\ SumAmt(ret.dr) = SumAmt(ret.cr)

\* a statement with the plug on the credit side has been composed
C6_Witness ==
  /\ pc = "return" /\ fn = "pl_t_format"
  /\ RowsLabelled(ret.cr, PlugLabels) # {}
  /\ NaturalCr(args) # 0

\* net profit as the specification states it
NetProfit(y) ==
  (y.turnover - y.return_inwards)
    - (y.opening_stock + y.purchases - y.return_outwards + y.carriage_inward
         - y.closing_stock)
    + y.other_income
    - (y.salaries + y.rent_utilities + y.admin_misc + y.depreciation_it
         + y.finance_costs + y.other_expenses)

\* C10: the plug of pl_t_format agrees with compute_profit: net_profit >= 0
\* puts it on the debit side with amount net_profit, net_profit < 0 on the
\* credit side with amount -net_profit.
C10_PlugIsNetProfit ==
  (pc = "return" /\ fn = "pl_t_format") =>
    /\ ret.net_profit = NetProfit(args)
    /\ compute_profit(args).net_profit = NetProfit(args)
    /\ (NetProfit(args) >= 0 =>
          /\ ret.dr[Len(ret.dr)] = <<"To Net Profit", NetProfit(args)>>
          /\ RowsLabelled(ret.cr, PlugLabels) = {})
    /\ (NetProfit(args) < 0 =>
          /\ ret.cr[Len(ret.cr)] = <<"By Gross Profit", -NetProfit(args)>>
          /\ RowsLabelled(ret.dr, PlugLabels) = {})

\* a statement of a year with returns outwards and a net loss
C10_Witness ==
  /\ pc = "return" /\ fn = "pl_t_format"
  /\ args.return_outwards > 0
  /\ ret.net_profit < 0
  /\ RowsLabelled(ret.cr, PlugLabels) # {}

\* ------------------------------------------------------------------
\* POST /excel
\* ------------------------------------------------------------------
API_KEY == "CHANGE_ME"

\* base*f with f = 1 + g/100.0; exact in 1/Den on whole amounts and whole g
apply_growth(base, g) == [h \in Fields |-> (base[h] * (Den + g)) \div Den]

\* year2_handling with continuity applied to a supplied Year-2 only
year2_handling_supplied_only(payload) ==
  LET grown == payload.y2 = <<>> /\ payload.auto_growth
      y2    == IF grown THEN <<apply_growth(payload.y1, payload.growth_pct)>>
               ELSE payload.y2
      notes == IF grown THEN << <<"growth", payload.growth_pct>> >> ELSE <<>>
  IN  IF payload.enforce_continuity /\ payload.y2 # <<>>
      THEN [y2 |-> <<[y2[1] EXCEPT !.opening_stock = payload.y1.closing_stock]>>,
            growth_used |-> IF grown THEN <<payload.growth_pct>> ELSE <<>>,
            notes |-> Append(notes, <<"stock", 0>>)]
      ELSE [y2 |-> y2,
            growth_used |-> IF grown THEN <<payload.growth_pct>> ELSE <<>>,
            notes |-> notes]

\* Year-2 handling and the stock continuity rule.  An Optional[YearIn] is a
\* sequence: <<>> is None, <<y>> is the YearIn y.
year2_handling(payload) ==
  LET grown == payload.y2 = <<>> /\ payload.auto_growth
      y2    == IF grown THEN <<apply_growth(payload.y1, payload.growth_pct)>>
               ELSE payload.y2
      notes == IF grown THEN << <<"growth", payload.growth_pct>> >> ELSE <<>>
  IN  IF payload.enforce_continuity /\ y2 # <<>>
      THEN [y2 |-> <<[y2[1] EXCEPT !.opening_stock = payload.y1.closing_stock]>>,
            growth_used |-> IF grown THEN <<payload.growth_pct>> ELSE <<>>,
            notes |-> Append(notes, <<"stock", 0>>)]
      ELSE [y2 |-> y2,
            growth_used |-> IF grown THEN <<payload.growth_pct>> ELSE <<>>,
            notes |-> notes]

\* the opening capital of Year-2 taken from Year-2 itself
opening_cap_y2_own(payload, y2, cap1_close) == y2.capital_open

\* the opening capital of the Year-2 capital statement
opening_cap_y2(payload, y2, cap1_close) ==
  IF payload.enforce_continuity THEN cap1_close ELSE y2.capital_open

\* the capital note appended for every Year-2
capital_note_always(payload, notes, opening) ==
  Append(notes, <<"capital", round_inr(opening, Den)>>)

\* the capital continuity note, appended once Year-2 has been rendered
capital_note(payload, notes, opening) ==
  IF payload.enforce_continuity
  THEN Append(notes, <<"capital", round_inr(opening, Den)>>)
  ELSE notes

render_bs_cap_block(y, opening_capital, profit_value) ==
  LET cap_stmt == capital_t_format(opening_capital, profit_value,
                                   y.additional_investment, y.drawings)
      bs       == balance_sheet_t_format(cap_stmt.closing, y)
  IN  [bs |-> bs, cap_stmt |-> cap_stmt]

\* the rows of a computation block, in whole amounts; profit is whole, in 1/Den
comp_block(profit) ==
  LET tax == simple_tax(profit \div Den)
  IN  << <<"Income from Business or Profession", profit \div Den>>,
         <<"Add: Other Income", 0>>,
         <<"Gross Total Income", profit \div Den>>,
         <<"Less: Chapter VI-A", 0>>,
         <<"Total Income", profit \div Den>>,
         <<"Tax on Total Income", tax.tax>>,
         <<"Add: Health & Education Cess", tax.cess>>,
         <<"Total Tax Liability", tax.total>>,
         <<"Less: Taxes Paid (TDS/TCS/Adv/SAT)", 0>>,
         <<"Net Tax Payable/(Refund)", tax.total>> >>

\* what generate_excel hands to the workbook; an absent Year-2 block is <<>>
generate_excel(payload) ==
  LET y1          == payload.y1
      h           == year2_handling(payload)
      has_y2      == h.y2 # <<>>
      pl1         == pl_t_format(y1)
      np1         == round_inr(pl1.net_profit, Den) * Den
      cap1        == capital_t_format(y1.capital_open, np1,
                                      y1.additional_investment, y1.drawings)
      cap1_close  == cap1.closing
      block1      == render_bs_cap_block(y1, y1.capital_open, np1)
  IN  IF ~has_y2
      THEN [status |-> 200, y2 |-> <<>>, growth_used |-> h.growth_used,
            pl |-> <<pl1>>, cap_close |-> <<cap1_close>>,
            blocks |-> <<block1>>, comp |-> <<comp_block(np1)>>,
            notes |-> h.notes]
      ELSE
        LET y2      == h.y2[1]
            pl2     == pl_t_format(y2)
            np2     == round_inr(pl2.net_profit, Den) * Den
            cap2    == capital_t_format(
                         IF payload.enforce_continuity THEN cap1_close
                         ELSE y2.capital_open,
                         np2, y2.additional_investment, y2.drawings)
            opening == opening_cap_y2(payload, y2, cap1_close)
            block2  == render_bs_cap_block(y2, opening, np2)
        IN  [status |-> 200, y2 |-> h.y2, growth_used |-> h.growth_used,
             pl |-> <<pl1, pl2>>, cap_close |-> <<cap1_close, cap2.closing>>,
             blocks |-> <<block1, block2>>,
             comp |-> <<comp_block(np1), comp_block(np2)>>,
             notes |-> capital_note(payload, h.notes, opening)]

\* the years of a request: at most one head supplied, the others omitted
PayloadYears == Populated(Fields, 1)

Growths == {0, 10, 100}

Payloads ==
  [y1 : PayloadYears,
   y2 : {<<>>} \cup {<<y>> : y \in PayloadYears},
   auto_growth : BOOLEAN,
   growth_pct : Growths,
   enforce_continuity : BOOLEAN]

\* a request is posted to /excel
Init ==
  /\ pc = "call"
  /\ fn = "generate_excel"
  /\ args \in [payload : Payloads, x_api_key : {API_KEY, "wrong"}]
  /\ ret = None
  /\ last = <<>>

\* check_key rejects the request
Unauthorized ==
  /\ pc = "call" /\ fn = "generate_excel"
  /\ args.x_api_key # API_KEY
  /\ ret' = [status |-> 401]
  /\ pc' = "return"
  /\ UNCHANGED <<fn, args, last>>

\* the handler builds the report
GenerateExcel ==
  /\ pc = "call" /\ fn = "generate_excel"
  /\ args.x_api_key = API_KEY
  /\ ret' = generate_excel(args.payload)
  /\ pc' = "return"
  /\ UNCHANGED <<fn, args, last>>

Next == Unauthorized \/ GenerateExcel

Spec == Init /\ [][Next]_vars

\* ------------------------------------------------------------------
\* Claims about generate_excel (checked under Spec)
\* ------------------------------------------------------------------
\* the handler has returned a report
Reported == pc = "return" /\ fn = "generate_excel" /\ ret.status = 200

\* every head of y scaled by (1 + g/100)
Projected(y, g) == [h \in Fields |-> y[h] + (y[h] * g) \div 100]

\* a Year-2 exists: supplied, or generated by growth
Y2Exists(p) == p.y2 # <<>> \/ p.auto_growth

\* Year-2 as supplied, or as projected from Year-1
Y2Given(p) == IF p.y2 # <<>> THEN p.y2[1] ELSE Projected(p.y1, p.growth_pct)

\* the closing capital of Year-1: a capital statement floored at zero
Cap1Close(y1) ==
  Max(0, y1.capital_open + Nearest(NetProfit(y1), Den) * Den
           + y1.additional_investment - y1.drawings)

NotesOfKind(kind) == {i \in 1..Len(ret.notes) : ret.notes[i][1] = kind}

\* C7: whenever continuity is enabled and a Year-2 exists, the Year-2
\* figures used for every statement have opening_stock equal to Year-1's
\* closing_stock, whatever was supplied or projected, and every other
\* Year-2 head is as supplied or projected.
C7_StockContinuity ==
  LET p == args.payload
  IN  (Reported /\ p.enforce_continuity /\ Y2Exists(p)) =>
        /\ ret.y2 # <<>>
        /\ ret.y2[1].opening_stock = p.y1.closing_stock
        /\ \A h \in Fields \ {"opening_stock"} : ret.y2[1][h] = Y2Given(p)[h]
        /\ Len(ret.pl) = 2 /\ Len(ret.blocks) = 2
        /\ ret.pl[2] = pl_t_format(ret.y2[1])
        /\ ret.pl[2].dr[1] = <<"To Opening Stock", p.y1.closing_stock>>
        /\ ret.blocks[2].bs.assets[2] = <<"Inventory", Y2Given(p).closing_stock>>
        /\ ret.blocks[2].cap_stmt.dr[1] = <<"To Drawings", Y2Given(p).drawings>>

\* a supplied Year-2 whose opening stock was replaced by a non-zero closing
\* stock of Year-1
C7_Witness ==
  /\ Reported /\ args.payload.enforce_continuity
  /\ args.payload.y2 # <<>>
  /\ args.payload.y2[1].opening_stock # 0
  /\ args.payload.y1.closing_stock # 0
  /\ args.payload.y2[1].opening_stock # args.payload.y1.closing_stock
  /\ ret.pl[2].dr[1][2] = args.payload.y1.closing_stock

\* C8: the opening balance of the Year-2 capital statement, and hence the
\* Capital line of the Year-2 balance sheet, comes from Year-1's closing
\* capital whenever continuity is enabled, ignoring Year-2's capital_open;
\* when continuity is disabled it is Year-2's own capital_open and Year-2's
\* figures are used exactly as supplied.
C8_CapitalContinuity ==
  LET p == args.payload
  IN  (Reported /\ Y2Exists(p)) =>
        /\ Len(ret.blocks) = 2
        /\ ret.blocks[1].cap_stmt.closing = Cap1Close(p.y1)
        /\ ret.blocks[2].bs.liabilities[1]
              = <<"Capital", ret.blocks[2].cap_stmt.closing>>
        /\ ret.blocks[2].cap_stmt.closing
              = Max(0, SumAmt(ret.blocks[2].cap_stmt.cr)
                         - ret.blocks[2].cap_stmt.dr[1][2])
        /\ (p.enforce_continuity =>
              ret.blocks[2].cap_stmt.cr[1]
                = <<"By Opening Balance", Cap1Close(p.y1)>>)
        /\ (~p.enforce_continuity =>
              /\ ret.blocks[2].cap_stmt.cr[1]
                   = <<"By Opening Balance", Y2Given(p).capital_open>>
              /\ ret.y2 = <<Y2Given(p)>>
              /\ ret.pl[2] = pl_t_format(Y2Given(p)))

\* a supplied capital_open of Year-2 was replaced by a different, positive
\* closing capital of Year-1
C8_Witness ==
  /\ Reported /\ args.payload.enforce_continuity
  /\ args.payload.y2 # <<>>
  /\ args.payload.y2[1].capital_open # 0
  /\ Cap1Close(args.payload.y1) > 0
  /\ Cap1Close(args.payload.y1) # args.payload.y2[1].capital_open
  /\ ret.blocks[2].cap_stmt.cr[1][2] = Cap1Close(args.payload.y1)

\* C9: the notes contain the stock-continuity note and the
\* capital-continuity note if and only if continuity is enabled and a Year-2
\* exists, and the growth note exactly when Year-2 was generated (y2 not
\* supplied and auto_growth requested).
C9_NotesRecordContinuity ==
  LET p == args.payload
  IN  Reported =>
        /\ (NotesOfKind("stock") # {} <=> (p.enforce_continuity /\ Y2Exists(p)))
        /\ (NotesOfKind("capital") # {} <=> (p.enforce_continuity /\ Y2Exists(p)))
        /\ (NotesOfKind("growth") # {} <=> (p.y2 = <<>> /\ p.auto_growth))
        /\ \A i \in 1..Len(ret.notes) : ret.notes[i][1] \in {"stock", "capital", "growth"}

\* a report of a generated Year-2 carrying all three notes
C9_Witness ==
  /\ Reported
  /\ args.payload.y2 = <<>> /\ args.payload.growth_pct > 0
  /\ NotesOfKind("growth") # {} /\ NotesOfKind("stock") # {}
  /\ NotesOfKind("capital") # {}
  /\ ret.y2[1].closing_stock # ret.y2[1].opening_stock

====
